---- MODULE Spec2Model ----
(***************************************************************************)
(* Model of checkmarx_consolidated_final.py: a Checkmarx CSV export is     *)
(* loaded, rows with an empty or 'none' Result Severity are dropped, the   *)
(* remaining rows are grouped by Query, and a workbook with one sheet of   *)
(* all findings plus one sheet per severity is written.                    *)
(*                                                                         *)
(* Python strings are sequences of one-character strings, so that          *)
(* str.strip, str.lower, str.join, f-strings and the ordering of group     *)
(* keys are computed character by character, as Python computes them.      *)
(* Column names (the keys of a row) stay plain strings.                    *)
(***************************************************************************)
EXTENDS Integers, Sequences, FiniteSets, TLC

(***************************************************************************)
(* Bounds of the model.                                                    *)
(***************************************************************************)
\* The longest CSV body (number of data rows) read_csv returns.
MaxRows == 3

(***************************************************************************)
(* Python str primitives.                                                  *)
(***************************************************************************)
\* The ASCII letters and digits, each run in code point order.
UpperLetters ==
  << "A", "B", "C", "D", "E", "F", "G", "H", "I", "J", "K", "L", "M",
     "N", "O", "P", "Q", "R", "S", "T", "U", "V", "W", "X", "Y", "Z" >>

LowerLetters ==
  << "a", "b", "c", "d", "e", "f", "g", "h", "i", "j", "k", "l", "m",
     "n", "o", "p", "q", "r", "s", "t", "u", "v", "w", "x", "y", "z" >>

Digits == << "0", "1", "2", "3", "4", "5", "6", "7", "8", "9" >>

\* The index of c in the sequence s, 0 when c is not in it.
IndexOf(s, c) ==
  IF \E i \in 1..Len(s) : s[i] = c THEN CHOOSE i \in 1..Len(s) : s[i] = c ELSE 0

\* ord(c): the code point of a character of the model's alphabet
\* (letters, digits, white space and the punctuation the program emits).
Ord(c) ==
  CASE IndexOf(UpperLetters, c) > 0 -> 64 + IndexOf(UpperLetters, c)
    [] IndexOf(LowerLetters, c) > 0 -> 96 + IndexOf(LowerLetters, c)
    [] IndexOf(Digits, c) > 0       -> 47 + IndexOf(Digits, c)
    [] c = "\t" -> 9
    [] c = "\n" -> 10
    [] c = " "  -> 32
    [] c = ")"  -> 41
    [] c = ","  -> 44
    [] c = "."  -> 46
    [] c = "="  -> 61

\* chr(n) for the letters and digits.
Chr(n) ==
  CASE n >= 48 /\ n <= 57  -> Digits[n - 47]
    [] n >= 65 /\ n <= 90  -> UpperLetters[n - 64]
    [] n >= 97 /\ n <= 122 -> LowerLetters[n - 96]

\* c.isspace() for the characters of the model.
IsSpace(c) == c \in {" ", "\t", "\n"}

\* c.lower(): A..Z (65..90) map to a..z (97..122).
LowerChar(c) == IF Ord(c) >= 65 /\ Ord(c) <= 90 THEN Chr(Ord(c) + 32) ELSE c

\* s.lower()
str_lower(s) == [i \in 1..Len(s) |-> LowerChar(s[i])]

\* s.lstrip()
RECURSIVE str_lstrip(_)
str_lstrip(s) ==
  IF s # << >> /\ IsSpace(Head(s)) THEN str_lstrip(Tail(s)) ELSE s

\* s.rstrip()
RECURSIVE str_rstrip(_)
str_rstrip(s) ==
  IF s # << >> /\ IsSpace(s[Len(s)])
    THEN str_rstrip(SubSeq(s, 1, Len(s) - 1))
    ELSE s

\* s.strip()
str_strip(s) == str_rstrip(str_lstrip(s))

\* sep.join(parts)
RECURSIVE str_join(_, _)
str_join(sep, parts) ==
  IF parts = << >> THEN << >>
  ELSE IF Len(parts) = 1 THEN parts[1]
  ELSE parts[1] \o sep \o str_join(sep, Tail(parts))

\* str(n) for n >= 0: the decimal digits of n.
RECURSIVE str_int(_)
str_int(n) ==
  IF n < 10 THEN << Chr(48 + n) >>
  ELSE str_int(n \div 10) \o << Chr(48 + (n % 10)) >>

\* a < b on Python strings: lexicographic by code point.
RECURSIVE str_lt(_, _)
str_lt(a, b) ==
  IF b = << >> THEN FALSE
  ELSE IF a = << >> THEN TRUE
  ELSE IF Head(a) # Head(b) THEN Ord(Head(a)) < Ord(Head(b))
  ELSE str_lt(Tail(a), Tail(b))

(***************************************************************************)
(* Module-level tables of the program.                                     *)
(***************************************************************************)
DETAIL_FIELDS ==
  << "SrcFileName", "Line", "Column", "NodeId", "Name",
     "DestFileName", "DestLine", "DestColumn", "DestNodeId", "DestName" >>

LABEL_MAP ==
  [ SrcFileName  |-> << "S","o","u","r","c","e"," ","F","i","l","e" >>,
    Line         |-> << "L","i","n","e" >>,
    Column       |-> << "C","o","l","u","m","n" >>,
    NodeId       |-> << "N","o","d","e"," ","I","D" >>,
    Name         |-> << "F","u","n","c","t","i","o","n" >>,
    DestFileName |-> << "D","e","s","t"," ","F","i","l","e" >>,
    DestLine     |-> << "D","e","s","t"," ","L","i","n","e" >>,
    DestColumn   |-> << "D","e","s","t"," ","C","o","l","u","m","n" >>,
    DestNodeId   |-> << "D","e","s","t"," ","N","o","d","e"," ","I","D" >>,
    DestName     |-> << "D","e","s","t"," ","F","u","n","c","t","i","o","n" >> ]

OUTPUT_COLS ==
  << "Vulnerability Type", "Occurrences", "Severity", "Total Findings" >>

Critical    == << "C","r","i","t","i","c","a","l" >>
High        == << "H","i","g","h" >>
Medium      == << "M","e","d","i","u","m" >>
Low         == << "L","o","w" >>
Information == << "I","n","f","o","r","m","a","t","i","o","n" >>

SEVERITIES == << Critical, High, Medium, Low, Information >>

SEV_SHEETS ==
  [ s \in {Critical, High, Medium, Low, Information} |->
      CASE s = Critical    -> "Critical Issues"
        [] s = High        -> "High Issues"
        [] s = Medium      -> "Medium Issues"
        [] s = Low         -> "Low Issues"
        [] s = Information -> "Information Issues" ]

(***************************************************************************)
(* A DataFrame: the column names in file order and the rows, each row the  *)
(* sequence of its cell values in column order.                            *)
(***************************************************************************)
\* Position of a column in the frame, 0 when the frame has no such column.
ColumnIndex(columns, name) ==
  IF \E i \in 1..Len(columns) : columns[i] = name
    THEN CHOOSE i \in 1..Len(columns) : columns[i] = name
    ELSE 0

\* row.get(fld, ""): the cell of the named column, "" when it is absent.
row_get(columns, row, fld) ==
  IF ColumnIndex(columns, fld) = 0 THEN << >> ELSE row[ColumnIndex(columns, fld)]

\* Mutant of KeepRow: the comparison without str.strip().
KeepRow_NoStrip(columns, row) ==
  str_lower(row_get(columns, row, "Result Severity"))
     \notin { << >>, << "n","o","n","e" >> }

\* The predicate of line 80: the severity, stripped and lowercased, is
\* neither "" nor "none".
KeepRow(columns, row) ==
  str_lower(str_strip(row_get(columns, row, "Result Severity")))
     \notin { << >>, << "n","o","n","e" >> }

\* load_and_clean after read_csv: boolean-mask selection keeps row order.
load_and_clean(frame) ==
  [ columns |-> frame.columns,
    rows    |-> SelectSeq(frame.rows, LAMBDA r : KeepRow(frame.columns, r)) ]

(***************************************************************************)
(* consolidate: occurrence text, grouping by Query, severity selection.    *)
(***************************************************************************)
\* The loop of fmt_occurrence from field i on: one "<label>=<value>" part
\* for every detail field whose value is truthy (a non-empty string).
RECURSIVE fmt_parts(_, _, _)
fmt_parts(columns, row, i) ==
  IF i > Len(DETAIL_FIELDS) THEN << >>
  ELSE LET fld == DETAIL_FIELDS[i]
           val == row_get(columns, row, fld)
       IN  (IF val # << >> THEN << LABEL_MAP[fld] \o << "=" >> \o val >> ELSE << >>)
             \o fmt_parts(columns, row, i + 1)

\* Mutant of fmt_occurrence: the detail fields in the column order of the
\* file instead of the order of DETAIL_FIELDS.
fmt_occurrence_FileOrder(columns, row) ==
  LET at    == SelectSeq([ i \in 1..Len(columns) |-> i ],
                         LAMBDA i : /\ IndexOf(DETAIL_FIELDS, columns[i]) > 0
                                    /\ row[i] # << >>)
  IN  str_join(<< ",", " " >>,
               [ j \in 1..Len(at) |->
                   LABEL_MAP[columns[at[j]]] \o << "=" >> \o row[at[j]] ])

\* fmt_occurrence(row): ", ".join(parts)
fmt_occurrence(columns, row) ==
  str_join(<< ",", " " >>, fmt_parts(columns, row, 1))

\* sorted(keys): ascending by str_lt.
RECURSIVE SortKeys(_)
SortKeys(S) ==
  IF S = {} THEN << >>
  ELSE LET m == CHOOSE x \in S : \A y \in S \ {x} : str_lt(x, y)
       IN  << m >> \o SortKeys(S \ {m})

\* Mutant of GroupKeys: the key of every row, repeated keys kept.
GroupKeys_PerRow(df) ==
  [ i \in 1..Len(df.rows) |-> row_get(df.columns, df.rows[i], "Query") ]

\* The group keys of df.groupby("Query"): groupby's default is sort=True,
\* so the distinct keys come in ascending order.
GroupKeys(df) ==
  SortKeys({ row_get(df.columns, df.rows[i], "Query") : i \in 1..Len(df.rows) })

\* The rows of one group, in frame order.
GroupRows(df, key) ==
  SelectSeq(df.rows, LAMBDA r : row_get(df.columns, r, "Query") = key)

\* Mutant of agg_OccText: rows without any detail get no entry.
agg_OccText_SkipEmpty(items) ==
  LET kept == SelectSeq(items, LAMBDA txt : txt # << >>)
  IN  str_join(<< "\n", "\n" >>,
               [ i \in 1..Len(kept) |-> str_int(i) \o << ")", " " >> \o kept[i] ])

\* The OccText aggregation of line 96:
\* "\n\n".join(f"{i+1}) {txt}" for i, txt in enumerate(items))
agg_OccText(items) ==
  str_join(<< "\n", "\n" >>,
           [ i \in 1..Len(items) |-> str_int(i) \o << ")", " " >> \o items[i] ])

\* Mutant of agg_sevs: the distinct severities of the group (set, not list).
agg_sevs_Distinct(columns, rows) ==
  SortKeys({ row_get(columns, rows[i], "Result Severity") : i \in 1..Len(rows) })

\* The "Result Severity" aggregation of line 97: list
agg_sevs(columns, rows) ==
  [ i \in 1..Len(rows) |-> row_get(columns, rows[i], "Result Severity") ]

\* Mutant of InList: membership after the normalization of the filter.
InList_Normalized(sev, sevs) ==
  \E i \in 1..Len(sevs) : str_lower(str_strip(sevs[i])) = str_lower(sev)

\* sev in sevs, for a list sevs
InList(sev, sevs) == \E i \in 1..Len(sevs) : sevs[i] = sev

\* The loop of pick_severity over SEVERITIES[:-1], from index i on.
RECURSIVE pick_loop(_, _)
pick_loop(sevs, i) ==
  IF i > Len(SEVERITIES) - 1 THEN
    (IF InList(Information, sevs) THEN Information ELSE << >>)
  ELSE IF InList(SEVERITIES[i], sevs) THEN SEVERITIES[i]
  ELSE pick_loop(sevs, i + 1)

\* Mutant of pick_severity: the severity of the first row of the group.
pick_severity_FirstRow(sevs) ==
  IF \E i \in 1..Len(SEVERITIES) : SEVERITIES[i] = sevs[1] THEN sevs[1] ELSE << >>

pick_severity(sevs) == pick_loop(sevs, 1)

\* Line 93, df["OccText"] = df.apply(fmt_occurrence, axis=1): the frame
\* gains the column (an existing column of that name is overwritten).
with_OccText(df) ==
  LET at == ColumnIndex(df.columns, "OccText")
  IN  [ columns |-> IF at = 0 THEN Append(df.columns, "OccText") ELSE df.columns,
        rows    |-> [ i \in 1..Len(df.rows) |->
                        IF at = 0
                          THEN Append(df.rows[i], fmt_occurrence(df.columns, df.rows[i]))
                          ELSE [ df.rows[i] EXCEPT
                                   ![at] = fmt_occurrence(df.columns, df.rows[i]) ] ] ]

\* One record of the frame consolidate returns, in OUTPUT_COLS.
GroupRecord(df, key) ==
  LET rows == GroupRows(df, key)
      occ  == [ i \in 1..Len(rows) |-> row_get(df.columns, rows[i], "OccText") ]
      sevs == agg_sevs(df.columns, rows)
  IN  [ c \in { OUTPUT_COLS[j] : j \in 1..Len(OUTPUT_COLS) } |->
          CASE c = "Vulnerability Type" -> key
            [] c = "Occurrences"        -> agg_OccText(occ)
            [] c = "Severity"           -> pick_severity(sevs)
            [] c = "Total Findings"     -> Len(sevs) ]

\* consolidate(df), for the frame that already holds OccText: one record
\* per group key, in the order of the keys.
consolidate(df) ==
  LET keys == GroupKeys(df)
  IN  [ k \in 1..Len(keys) |-> GroupRecord(df, keys[k]) ]

(***************************************************************************)
(* build_workbook: the sheets of the workbook.  Cell styling (style_ws)    *)
(* changes no cell value and is left out, except for the sheet title.      *)
(***************************************************************************)
\* A worksheet: its title, the header row and the data rows below it.
Sheet(title, records) ==
  [ title |-> title, header |-> OUTPUT_COLS, rows |-> records ]

\* df[df["Severity"] == severity]
FilterSeverity(records, severity) ==
  SelectSeq(records, LAMBDA rec : rec["Severity"] = severity)

\* Mutant of severity_sheets: a sheet for every severity, empty or not.
RECURSIVE severity_sheets_NoEmptyCheck(_, _)
severity_sheets_NoEmptyCheck(records, i) ==
  IF i > Len(SEVERITIES) THEN << >>
  ELSE << [ title  |-> SEV_SHEETS[SEVERITIES[i]],
            header |-> OUTPUT_COLS,
            rows   |-> SelectSeq(records,
                                 LAMBDA rec : rec["Severity"] = SEVERITIES[i]) ] >>
         \o severity_sheets_NoEmptyCheck(records, i + 1)

\* The loop of lines 163-171 over SEVERITIES, from index i on.
RECURSIVE severity_sheets(_, _)
severity_sheets(records, i) ==
  IF i > Len(SEVERITIES) THEN << >>
  ELSE LET filtered_df == FilterSeverity(records, SEVERITIES[i])
       IN  (IF filtered_df # << >>
              THEN << Sheet(SEV_SHEETS[SEVERITIES[i]], filtered_df) >>
              ELSE << >>)
             \o severity_sheets(records, i + 1)

build_workbook(records) ==
  << Sheet("All Findings", records) >> \o severity_sheets(records, 1)

(***************************************************************************)
(* The run of main() as a state machine.                                   *)
(***************************************************************************)
VARIABLES
  pc,         \* the statement of main() about to run, "exit" once it ended
  argc,       \* len(sys.argv), 0 before it is read
  csv,        \* the frame read_csv returned, << >> before the read
  df,         \* main's df, << >> before load_and_clean returned
  df_final,   \* main's df_final, << >> before consolidate returned
  outfile,    \* the output path: << >> while absent, << wb >> once saved
  stdout,     \* the lines printed
  exit_code   \* the process exit status, -1 while running

vars == << pc, argc, csv, df, df_final, outfile, stdout, exit_code >>

Init ==
  /\ pc = "main"
  /\ argc = 0
  /\ csv = << >>
  /\ df = << >>
  /\ df_final = << >>
  /\ outfile = << >>
  /\ stdout = << >>
  /\ exit_code = -1

\* Mutant of CheckArgs: the usage message is printed but sys.exit(1) is
\* missing, so the run goes on.
CheckArgs_NoExit ==
  /\ pc = "main"
  /\ \E n \in 1..4 :
       /\ argc' = n
       /\ stdout' = IF n # 3 THEN Append(stdout, "Usage") ELSE stdout
       /\ pc' = "isfile"
  /\ UNCHANGED << csv, df, df_final, outfile, exit_code >>

\* Lines 178-182: the argument count check.
CheckArgs ==
  /\ pc = "main"
  /\ \E n \in 1..4 :
       /\ argc' = n
       /\ IF n # 3
            THEN /\ stdout' = Append(stdout, "Usage")
                 /\ exit_code' = 1
                 /\ pc' = "exit"
            ELSE /\ pc' = "isfile"
                 /\ UNCHANGED << stdout, exit_code >>
  /\ UNCHANGED << csv, df, df_final, outfile >>

\* Lines 184-186: the input path check.
CheckFile ==
  /\ pc = "isfile"
  /\ \E isfile \in BOOLEAN :
       IF ~isfile
         THEN /\ stdout' = Append(stdout, "Error: File not found")
              /\ exit_code' = 1
              /\ pc' = "exit"
         ELSE /\ pc' = "load_and_clean"
              /\ UNCHANGED << stdout, exit_code >>
  /\ UNCHANGED << argc, csv, df, df_final, outfile >>

\* All rows over the columns whose cell in column i is in cells[columns[i]].
RowsOver(columns, cells) ==
  { r \in [1..Len(columns) -> UNION { cells[columns[i]] : i \in 1..Len(columns) }] :
      \A i \in 1..Len(columns) : r[i] \in cells[columns[i]] }

\* Line 188: df = load_and_clean(inp).  The file read is any frame of one of
\* the families of Files: the family's columns, at most its n rows, each cell
\* one of the family's values for its column.
\* df["Result Severity"] raises KeyError when the column is absent; the
\* exception is not caught and the interpreter exits with status 1.
LoadAndClean(Files) ==
  /\ pc = "load_and_clean"
  /\ \E f \in 1..Len(Files) :
       \E k \in 0..Files[f].n :
         \E rs \in [1..k -> RowsOver(Files[f].columns, Files[f].cells)] :
           LET frame == [ columns |-> Files[f].columns, rows |-> rs ]
           IN  /\ csv' = << frame >>
               /\ IF ColumnIndex(frame.columns, "Result Severity") = 0
                    THEN /\ exit_code' = 1
                         /\ pc' = "exit"
                         /\ UNCHANGED df
                    ELSE /\ df' = << load_and_clean(frame) >>
                         /\ pc' = "consolidate"
                         /\ UNCHANGED exit_code
  /\ UNCHANGED << argc, df_final, outfile, stdout >>

\* Line 189: df_final = consolidate(df).  The OccText column is added to
\* main's df first (line 93); groupby("Query") then raises KeyError when
\* the Query column is absent.
Consolidate ==
  /\ pc = "consolidate"
  /\ df' = << with_OccText(df[1]) >>
  /\ IF ColumnIndex(df[1].columns, "Query") = 0
       THEN /\ exit_code' = 1
            /\ pc' = "exit"
            /\ UNCHANGED df_final
       ELSE /\ df_final' = << consolidate(with_OccText(df[1])) >>
            /\ pc' = "build_workbook"
            /\ UNCHANGED exit_code
  /\ UNCHANGED << argc, csv, outfile, stdout >>

\* Line 190: build_workbook(df_final, outp) builds the sheets, saves the
\* workbook and prints the confirmation; main returns, exit status 0.
BuildWorkbook ==
  /\ pc = "build_workbook"
  /\ outfile' = << build_workbook(df_final[1]) >>
  /\ stdout' = Append(stdout, "Report generated")
  /\ exit_code' = 0
  /\ pc' = "exit"
  /\ UNCHANGED << argc, csv, df, df_final >>

(***************************************************************************)
(* The input files.  A family of frames: the columns in file order, for    *)
(* each column the cell values a row may hold, and the most rows.          *)
(***************************************************************************)
XSS  == << "X","S","S" >>
SQLi == << "S","Q","L","i" >>
Csrf == << "c","s","r","f" >>

\* Files for the whole run: three identifiers, a mix of severities, and two
\* layouts that lack a mandatory column.
PipelineFiles ==
  << [ columns |-> << "Query", "Result Severity", "SrcFileName" >>,
       cells   |-> [ Query |-> { XSS, SQLi, Csrf },
                     SrcFileName |-> { << "a",".","c" >> } ]
                     @@ ("Result Severity" :> { Critical, High, << "h","i","g","h" >>,
                                                << "N","o","n","e" >> }),
       n       |-> MaxRows ],
     [ columns |-> << "Query", "SrcFileName" >>,
       cells   |-> [ Query |-> { XSS }, SrcFileName |-> { << "a",".","c" >> } ],
       n       |-> 1 ],
     [ columns |-> << "Result Severity", "SrcFileName" >>,
       cells   |-> [ SrcFileName |-> { << "a",".","c" >> } ]
                     @@ ("Result Severity" :> { High }),
       n       |-> 1 ] >>

\* Severities that differ from a recognized one only in letter case or in
\* surrounding white space.
NearSeverities ==
  { << "h","i","g","h" >>, << " ","C","r","i","t","i","c","a","l" >> }

\* Files whose severities cover the five recognized values, values that
\* differ from one only in case or white space, and the filtered values;
\* and files with two identifiers, so that two groups differ in severity.
SevFiles ==
  << [ columns |-> << "Result Severity", "Query" >>,
       cells   |-> [ Query |-> { XSS } ]
                     @@ ("Result Severity" :>
                           { Critical, High, Medium, Low, Information,
                             << " ","N","o","n","e","\t" >>, << >>, << " " >> }
                           \cup NearSeverities),
       n       |-> MaxRows ],
     [ columns |-> << "Query", "Result Severity" >>,
       cells   |-> [ Query |-> { XSS, SQLi } ]
                     @@ ("Result Severity" :>
                           { Critical, High, Medium, Low, Information,
                             << "h","i","g","h" >> }),
       n       |-> MaxRows - 1 ] >>

\* The cell values of the files that differ in their detail fields.
OccCells ==
  [ Query        |-> { XSS, SQLi },
    SrcFileName  |-> { << >>, << "a",".","c" >> },
    Line         |-> { << >>, << "1","0" >> },
    DestName     |-> { << >>, << "f" >> } ]
    @@ ("Result Severity" :> { High })

\* Files whose rows differ in their detail fields: two identifiers, the
\* columns in another order than DETAIL_FIELDS, and detail columns absent.
OccFiles ==
  << [ columns |-> << "Query", "Result Severity", "SrcFileName", "Line" >>,
       cells   |-> OccCells,
       n       |-> MaxRows ],
     [ columns |-> << "DestName", "Line", "Result Severity", "Query", "SrcFileName" >>,
       cells   |-> [ OccCells EXCEPT !.Query = { XSS } ],
       n       |-> MaxRows ],
     [ columns |-> << "Query", "Result Severity", "Line" >>,
       cells   |-> [ OccCells EXCEPT !.Query = { XSS } ],
       n       |-> MaxRows ] >>

Next ==
  \/ CheckArgs
  \/ CheckFile
  \/ LoadAndClean(PipelineFiles)
  \/ Consolidate
  \/ BuildWorkbook

Spec == Init /\ [][Next]_vars

NextSev ==
  \/ CheckArgs
  \/ CheckFile
  \/ LoadAndClean(SevFiles)
  \/ Consolidate
  \/ BuildWorkbook

SpecSev == Init /\ [][NextSev]_vars

NextOcc ==
  \/ CheckArgs
  \/ CheckFile
  \/ LoadAndClean(OccFiles)
  \/ Consolidate
  \/ BuildWorkbook

SpecOcc == Init /\ [][NextOcc]_vars

(***************************************************************************)
(* What the properties below read from a state.                            *)
(***************************************************************************)
\* consolidate has returned: main holds df_final.
Consolidated == df_final # << >>

\* The filtered rows consolidate was given, and its records.
FilteredRows == df[1].rows
Records == df_final[1]

\* The vulnerability identifier of a filtered row.
QueryOf(r) == row_get(df[1].columns, r, "Query")

\* The severity of a filtered row.
SeverityOf(r) == row_get(df[1].columns, r, "Result Severity")

\* The positions, in the filtered rows, of the rows of one identifier.
RowsOfId(id) == { i \in 1..Len(FilteredRows) : QueryOf(FilteredRows[i]) = id }

\* The least element of a non-empty set of numbers.
Least(S) == CHOOSE x \in S : \A y \in S : x <= y

\* The k-th smallest element of a set of numbers.
RECURSIVE Kth(_, _)
Kth(S, k) == IF k = 1 THEN Least(S) ELSE Kth(S \ {Least(S)}, k - 1)

(***************************************************************************)
(* C1.  Output records come in first-occurrence order of their identifier  *)
(* among the filtered rows: if A first appears in an earlier row than B,   *)
(* the record of A precedes the record of B.                               *)
(* The code groups with groupby("Query"), whose default sort=True orders   *)
(* the records by ascending identifier instead; this statement is          *)
(* violated.                                                               *)
(***************************************************************************)
C1_FirstOccurrenceOrder ==
  Consolidated =>
    \A a, b \in 1..Len(Records) :
      Least(RowsOfId(Records[a]["Vulnerability Type"]))
        < Least(RowsOfId(Records[b]["Vulnerability Type"]))
      => a < b

(***************************************************************************)
(* C2.  The output holds exactly one record per distinct identifier among  *)
(* the rows that survive the filter: none missing, none added, none twice  *)
(* (also when no row survives).                                            *)
(***************************************************************************)
C2_OneRecordPerIdentifier ==
  Consolidated =>
    /\ { Records[k]["Vulnerability Type"] : k \in 1..Len(Records) }
         = { QueryOf(FilteredRows[i]) : i \in 1..Len(FilteredRows) }
    /\ \A a, b \in 1..Len(Records) :
         Records[a]["Vulnerability Type"] = Records[b]["Vulnerability Type"] => a = b

\* Three rows survive, two of them of one identifier: two records.
C2_Witness ==
  /\ Consolidated
  /\ Len(FilteredRows) = 3
  /\ Len(Records) = 2

(***************************************************************************)
(* C3.  Total Findings of a record is the number of filtered rows of its   *)
(* identifier, rows of equal severity each counted, and is at least 1.     *)
(***************************************************************************)
C3_TotalFindings ==
  Consolidated =>
    \A k \in 1..Len(Records) :
      /\ Records[k]["Total Findings"]
           = Cardinality(RowsOfId(Records[k]["Vulnerability Type"]))
      /\ Records[k]["Total Findings"] >= 1

\* A group of two rows of the same severity counts 2.
C3_Witness ==
  /\ Consolidated
  /\ \E k \in 1..Len(Records) :
       /\ Records[k]["Total Findings"] = 2
       /\ \A i, j \in RowsOfId(Records[k]["Vulnerability Type"]) :
            SeverityOf(FilteredRows[i]) = SeverityOf(FilteredRows[j])

(***************************************************************************)
(* C8.  The output file is written only after loading, filtering and       *)
(* consolidation completed; a failed run (wrong argument count, input not  *)
(* found, severity column absent) writes nothing; wrong argument count and *)
(* input not found exit with status 1 before anything is loaded; only the  *)
(* successful run writes the report and prints the confirmation.           *)
(***************************************************************************)
Printed(line) == \E i \in 1..Len(stdout) : stdout[i] = line

C8_WriteOnlyOnSuccess ==
  /\ outfile # << >> =>
       /\ csv # << >> /\ df # << >> /\ df_final # << >>
       /\ pc = "exit" /\ exit_code = 0
  /\ exit_code = 1 => outfile = << >> /\ ~Printed("Report generated")
  /\ (argc \in {1, 2, 4} \/ Printed("Error: File not found")) =>
       /\ pc = "exit" /\ exit_code = 1
       /\ csv = << >> /\ df = << >> /\ df_final = << >>
  /\ (csv # << >> /\ ColumnIndex(csv[1].columns, "Result Severity") = 0) =>
       /\ pc = "exit" /\ exit_code # 0
       /\ df = << >> /\ df_final = << >>
  /\ Printed("Report generated") <=> outfile # << >>
  /\ (pc = "exit" /\ exit_code = 0) => outfile # << >>

\* A run that ended on a file without the severity column.
C8_Witness ==
  /\ pc = "exit"
  /\ csv # << >>
  /\ ColumnIndex(csv[1].columns, "Result Severity") = 0
  /\ outfile = << >>

(***************************************************************************)
(* Helpers of the severity properties.                                     *)
(***************************************************************************)
\* The five recognized severities, highest priority first.
PriorityOrder == << Critical, High, Medium, Low, Information >>

Recognized == { PriorityOrder[j] : j \in 1..Len(PriorityOrder) }

\* The highest-priority recognized severity in a set of severity values,
\* the empty string when the set holds none.
BestOf(S) ==
  LET present == { j \in 1..Len(PriorityOrder) : PriorityOrder[j] \in S }
  IN  IF present = {} THEN << >> ELSE PriorityOrder[Least(present)]

\* The severity values of the rows of one identifier.
SeveritiesOfId(id) == { SeverityOf(FilteredRows[i]) : i \in RowsOfId(id) }

(***************************************************************************)
(* C4.  The representative severity of a group is the first value of       *)
(* Critical > High > Medium > Low > Information that occurs in the group   *)
(* (so Critical whenever a Critical row is present), and the empty string   *)
(* exactly when none of the five occurs; such a group is still emitted,    *)
(* with Total Findings equal to its row count.                             *)
(***************************************************************************)
C4_RepresentativeSeverity ==
  Consolidated =>
    /\ \A k \in 1..Len(Records) :
         LET id == Records[k]["Vulnerability Type"]
             S  == SeveritiesOfId(id)
         IN  /\ Records[k]["Severity"] = BestOf(S)
             /\ Critical \in S => Records[k]["Severity"] = Critical
             /\ Records[k]["Severity"] = << >> <=> S \cap Recognized = {}
             /\ S \cap Recognized = {} =>
                  Records[k]["Total Findings"] = Cardinality(RowsOfId(id))
    /\ \A i \in 1..Len(FilteredRows) :
         \E k \in 1..Len(Records) :
           Records[k]["Vulnerability Type"] = QueryOf(FilteredRows[i])

\* A group whose first row is Information and a later row Critical.
C4_Witness ==
  /\ Consolidated
  /\ \E k \in 1..Len(Records) :
       LET rows == RowsOfId(Records[k]["Vulnerability Type"])
       IN  /\ Cardinality(rows) = 3
           /\ SeverityOf(FilteredRows[Least(rows)]) = Information
           /\ Records[k]["Severity"] = Critical

(***************************************************************************)
(* C5.  load_and_clean returns the rows of the input, in input order,      *)
(* whose severity, trimmed of white space and lowercased, is neither the   *)
(* empty string nor "none"; filtering its result again changes nothing.    *)
(***************************************************************************)
\* s without its leading and trailing white space.
Trimmed(s) ==
  LET ns == { i \in 1..Len(s) : ~IsSpace(s[i]) }
  IN  IF ns = {} THEN << >>
      ELSE SubSeq(s, Least(ns), CHOOSE x \in ns : \A y \in ns : y <= x)

\* s is "none" in any letter case.
IsNoneWord(s) ==
  /\ Len(s) = 4
  /\ s[1] \in {"n", "N"} /\ s[2] \in {"o", "O"}
  /\ s[3] \in {"n", "N"} /\ s[4] \in {"e", "E"}

Survives(sev) == Trimmed(sev) # << >> /\ ~IsNoneWord(Trimmed(sev))

C5_FilterSubsequence ==
  pc = "consolidate" =>
    LET rows == csv[1].rows
        at   == ColumnIndex(csv[1].columns, "Result Severity")
        keep == { i \in 1..Len(rows) : Survives(rows[i][at]) }
    IN  /\ df[1].columns = csv[1].columns
        /\ Len(df[1].rows) = Cardinality(keep)
        /\ \A k \in 1..Len(df[1].rows) : df[1].rows[k] = rows[Kth(keep, k)]
        /\ load_and_clean(df[1]) = df[1]

\* The second of three rows is dropped for its " None<tab>" severity.
C5_Witness ==
  /\ pc = "consolidate"
  /\ Len(csv[1].rows) = 3
  /\ csv[1].rows[2][ColumnIndex(csv[1].columns, "Result Severity")]
       = << " ","N","o","n","e","\t" >>
  /\ df[1].rows = << csv[1].rows[1], csv[1].rows[3] >>

(***************************************************************************)
(* C10.  The filter normalizes (trim, lowercase) and the selection does    *)
(* not: a row whose severity differs from a recognized one only in case or *)
(* surrounding white space survives the filter and is counted in Total     *)
(* Findings, yet is unrecognized in the selection: a group of only such    *)
(* rows has the empty severity, and such a row never raises the severity   *)
(* of its group.                                                           *)
(***************************************************************************)
NearMiss(sev) ==
  /\ sev \notin Recognized
  /\ \E R \in Recognized : str_lower(str_strip(sev)) = str_lower(R)

C10_NearMissSeverity ==
  Consolidated =>
    LET rows == csv[1].rows
        at   == ColumnIndex(csv[1].columns, "Result Severity")
    IN  /\ Cardinality({ i \in 1..Len(rows) : NearMiss(rows[i][at]) })
             = Cardinality({ i \in 1..Len(FilteredRows) :
                               NearMiss(SeverityOf(FilteredRows[i])) })
        /\ \A k \in 1..Len(Records) :
             LET id == Records[k]["Vulnerability Type"]
                 S  == SeveritiesOfId(id)
             IN  /\ Records[k]["Total Findings"] = Cardinality(RowsOfId(id))
                 /\ (\A sev \in S : NearMiss(sev)) => Records[k]["Severity"] = << >>
                 /\ Records[k]["Severity"] = BestOf({ sev \in S : ~NearMiss(sev) })

\* A group of " Critical" and Low rows: both counted, the severity is Low.
C10_Witness ==
  /\ Consolidated
  /\ \E k \in 1..Len(Records) :
       /\ SeveritiesOfId(Records[k]["Vulnerability Type"])
            = { << " ","C","r","i","t","i","c","a","l" >>, Low }
       /\ Records[k]["Total Findings"] = 2
       /\ Records[k]["Severity"] = Low

(***************************************************************************)
(* C9.  The workbook holds one "All Findings" view with every record once, *)
(* in output order, and for each of the five severities a view if and only *)
(* if some record has that severity; each such view holds exactly the      *)
(* records of its severity, so a record of a recognized severity is in     *)
(* exactly one of them, a record of empty severity in none, and none of    *)
(* them is empty.                                                          *)
(***************************************************************************)
RowSet(sheet) == { sheet.rows[i] : i \in 1..Len(sheet.rows) }

C9_WorkbookViews ==
  outfile # << >> =>
    LET wb   == outfile[1]
        sevs == 2..Len(wb)
    IN  /\ wb[1].title = "All Findings"
        /\ wb[1].rows = Records
        /\ \A j \in sevs :
             /\ wb[j].rows # << >>
             /\ \E s \in Recognized :
                  /\ wb[j].title = SEV_SHEETS[s]
                  /\ RowSet(wb[j])
                       = { Records[k] : k \in { x \in 1..Len(Records) :
                                                  Records[x]["Severity"] = s } }
                  /\ Len(wb[j].rows) = Cardinality(RowSet(wb[j]))
        /\ \A s \in Recognized :
             Cardinality({ j \in sevs : wb[j].title = SEV_SHEETS[s] })
               = IF \E k \in 1..Len(Records) : Records[k]["Severity"] = s
                   THEN 1 ELSE 0
        /\ \A k \in 1..Len(Records) :
             Cardinality({ j \in sevs : Records[k] \in RowSet(wb[j]) })
               = IF Records[k]["Severity"] \in Recognized THEN 1 ELSE 0

\* Two records, one of severity Medium and one of empty severity: the
\* workbook has the full view and the view of Medium.
C9_Witness ==
  /\ outfile # << >>
  /\ Len(Records) = 2
  /\ \E k \in 1..2 : Records[k]["Severity"] = << >>
  /\ Len(outfile[1]) = 2
  /\ outfile[1][2].title = "Medium Issues"

(***************************************************************************)
(* Helpers of the occurrence text properties.                              *)
(***************************************************************************)
\* The first position at which sep occurs in text, 0 when it does not.
FirstAt(text, sep) ==
  LET hits == { i \in 1..(Len(text) - Len(sep) + 1) :
                  SubSeq(text, i, i + Len(sep) - 1) = sep }
  IN  IF hits = {} THEN 0 ELSE Least(hits)

\* The pieces of text between the occurrences of sep.
RECURSIVE SplitOn(_, _)
SplitOn(text, sep) ==
  LET at == FirstAt(text, sep)
  IN  IF at = 0 THEN << text >>
      ELSE << SubSeq(text, 1, at - 1) >>
             \o SplitOn(SubSeq(text, at + Len(sep), Len(text)), sep)

\* The per-row text consolidate stored for a filtered row.
OccTextOf(r) == row_get(df[1].columns, r, "OccText")

(***************************************************************************)
(* C6.  The Occurrences text of a group of n rows consists of n entries    *)
(* separated by exactly two line breaks, the k-th being "<k>) " followed   *)
(* by the per-row text of the k-th row of the group in input order; a row  *)
(* without any detail still has its numbered entry, so the number of       *)
(* entries equals Total Findings.  (Stated for groups of fewer than ten    *)
(* rows, whose numbers are one digit, and cell values without line         *)
(* breaks.)                                                                *)
(***************************************************************************)
C6_NumberedEntries ==
  Consolidated =>
    \A k \in 1..Len(Records) :
      LET rows    == RowsOfId(Records[k]["Vulnerability Type"])
          n       == Cardinality(rows)
          entries == SplitOn(Records[k]["Occurrences"], << "\n", "\n" >>)
      IN  /\ n < 10
          /\ Len(entries) = n
          /\ Len(entries) = Records[k]["Total Findings"]
          /\ \A j \in 1..n :
               entries[j] = << Digits[j + 1], ")", " " >>
                              \o OccTextOf(FilteredRows[Kth(rows, j)])

\* A group of two rows whose second row has no detail: its entry is "2) ".
C6_Witness ==
  /\ Consolidated
  /\ \E k \in 1..Len(Records) :
       LET rows == RowsOfId(Records[k]["Vulnerability Type"])
       IN  /\ Cardinality(rows) = 2
           /\ OccTextOf(FilteredRows[Kth(rows, 1)]) # << >>
           /\ OccTextOf(FilteredRows[Kth(rows, 2)]) = << >>
           /\ SubSeq(Records[k]["Occurrences"],
                     Len(Records[k]["Occurrences"]) - 4,
                     Len(Records[k]["Occurrences"]))
                = << "\n", "\n", "2", ")", " " >>

(***************************************************************************)
(* C7.  The per-row text is the ", "-joined list of "<label>=<value>"      *)
(* items for exactly the detail fields of non-empty value (an absent field *)
(* counts as empty), in the fixed order SrcFileName, Line, Column, NodeId, *)
(* Name, DestFileName, DestLine, DestColumn, DestNodeId, DestName,         *)
(* whatever the column order of the input; a row with only SrcFileName     *)
(* "a.c" and Line "10" gives "Source File=a.c, Line=10".                   *)
(***************************************************************************)
FieldOrder ==
  << "SrcFileName", "Line", "Column", "NodeId", "Name",
     "DestFileName", "DestLine", "DestColumn", "DestNodeId", "DestName" >>

\* The value of a detail field in a filtered row, empty when absent.
ValueOf(r, fld) ==
  LET hits == { i \in 1..Len(df[1].columns) : df[1].columns[i] = fld }
  IN  IF hits = {} THEN << >> ELSE r[Least(hits)]

\* The items of a per-row text: none for the empty text.
ItemsOf(text) == IF text = << >> THEN << >> ELSE SplitOn(text, << ",", " " >>)

C7_PerRowText ==
  Consolidated =>
    \A i \in 1..Len(FilteredRows) :
      LET r    == FilteredRows[i]
          kept == SelectSeq(FieldOrder, LAMBDA fld : ValueOf(r, fld) # << >>)
      IN  /\ ItemsOf(OccTextOf(r))
               = [ j \in 1..Len(kept) |->
                     LABEL_MAP[kept[j]] \o << "=" >> \o ValueOf(r, kept[j]) ]
          /\ ( /\ ValueOf(r, "SrcFileName") = << "a", ".", "c" >>
               /\ ValueOf(r, "Line") = << "1", "0" >>
               /\ \A j \in 3..Len(FieldOrder) : ValueOf(r, FieldOrder[j]) = << >> )
             => OccTextOf(r)
                  = << "S","o","u","r","c","e"," ","F","i","l","e","=","a",".","c",
                       ","," ","L","i","n","e","=","1","0" >>

\* A row of a file whose columns come in another order (DestName first),
\* with SrcFileName and Line only.
C7_Witness ==
  /\ Consolidated
  /\ df[1].columns[1] = "DestName"
  /\ \E i \in 1..Len(FilteredRows) :
       /\ FilteredRows[i][1] = << >>
       /\ OccTextOf(FilteredRows[i])
            = << "S","o","u","r","c","e"," ","F","i","l","e","=","a",".","c",
                 ","," ","L","i","n","e","=","1","0" >>

====
